---- MODULE Spec2Model ----
(***************************************************************************)
(* Model of the trace orchestrator of cmd/kubectl-gadget/utils/trace.go   *)
(* (CreateTrace, createTraces, waitForTraceState, printTraceFeedback,      *)
(* sigHandler, DeleteTrace, RunTraceAndPrintStream, SetTraceOperation,     *)
(* genericStreamsDisplay) and of the tcpconnect tracer runtime of          *)
(* pkg/gadgets/trace/tcpconnect/tracer/tracer.go.                          *)
(***************************************************************************)
EXTENDS Integers, Sequences, FiniteSets, Bags, TLC

VARIABLES
    cfgNode,               \* config.CommonFlags.Node: 0 is "", else a node
    cfgInitialState,       \* config.TraceInitialState
    cfgModeOk,             \* config.TraceOutputMode fits the Run* variant called
    pc,                    \* position of the calling task
    traceID,               \* the caller's traceID variable seen by sigHandler
    k,                     \* createTraces: next index of nodes.Items
    copies,                \* the copies labelled with the request's traceID
    clock,                 \* waitForTraceState: time.Since(start), 0 outside
    waitRet,               \* result of the last waitForTraceState call
    createRet,             \* result of CreateTrace
    rollback,              \* outcome of the delete issued by CreateTrace
    runRet,                \* result of RunTraceAndPrint*
    stderr,                \* lines printed by printTraceFeedback
    snapshot,              \* traces.Items of the round that returned
    hpc,                   \* the sigHandler goroutines
    sigIntReceivedNumber,  \* the package variable of that name
    exited,                \* os.Exit was called
    deleteRequests,        \* delete requests sent to the control plane
    deleteFailures,        \* those of them that failed
    nodes,                 \* nodes.Items: the nodes of the cluster
    posted,                \* the traces whose Post succeeded, in order
    deleteRet,             \* what the last DeleteTrace returned
    \* the tcpconnect Tracer
    tEntry,                \* the tracer is driven by NewTracer or by Run
    tLatency,              \* config.CalculateLatency
    tpc,                   \* position of the task calling NewTracer / Run
    ipc,                   \* install: the step it is at
    links,                 \* the link fields of the Tracer: TRUE is non-nil
    kernel,                \* live attachments in the kernel, per hook
    objs,                  \* t.objs is loaded
    reader,                \* t.reader: "nil", "open" or "closed"
    tRet,                  \* what NewTracer / Run returned
    loopPc,                \* the goroutines of t.run
    events,                \* the events given to eventCallback, in order
    enricher,              \* t.enricher != nil
    reads,                 \* what t.reader.Read() returned so far, in order
    closeCalls,            \* number of calls of t.close() that returned
    \* genericStreamsDisplay
    sItems,                \* results.Items: the nodes of the copies
    sNode,                 \* params.Node: 0 is "", else a node
    sJson,                 \* params.OutputMode == OutputModeJson
    apc,                   \* position of the task in genericStreamsDisplay
    todo,                  \* the items the launch loop has not visited yet
    streamCount,           \* the counter of that name
    branch,                \* the goroutine of each item
    sigs,                  \* number of signals held by the channel sigs
    stdout,                \* the lines printed by the select loop, in order
    sRet,                  \* what genericStreamsDisplay returned
    \* SetTraceOperation
    opPc,                  \* position of the task in SetTraceOperation
    opList,                \* outcome of getTraceListFromID
    opTodo,                \* the items the loop has not visited yet
    opPatched,             \* the copies whose annotation was patched
    opFailed,              \* the copies whose update returned an error
    opErr                  \* err != nil

orchVars == <<cfgNode, cfgInitialState, cfgModeOk, pc, traceID, k, copies,
              clock, waitRet, createRet, rollback, runRet, stderr,
              snapshot, hpc, sigIntReceivedNumber, exited, deleteRequests,
              deleteFailures, nodes, posted, deleteRet>>

tracerVars == <<tEntry, tLatency, tpc, ipc, links, kernel, objs, reader,
                tRet, loopPc, events, enricher, reads, closeCalls>>

streamVars == <<sItems, sNode, sJson, apc, todo, streamCount, branch, sigs,
                stdout, sRet>>

opVars == <<opPc, opList, opTodo, opPatched, opFailed, opErr>>

vars == <<orchVars, tracerVars, streamVars, opVars>>

----------------------------------------------------------------------------
(* Bounds and program constants *)

NumNodes == 3

\* traceTimeout (2s) and the retry sleep (100ms), in units of 100ms
traceTimeout == 20
retrySleep == 1

Nodes == 1..NumNodes

Started == "Started"
States == {"", Started}
OperationErrors == {"e1", "e2"}
OperationWarnings == {"w1"}
TimeoutMsg == "No results received from trace within 2s"
ListError == "Error getting traces from traceID"
NoneSucceeded == "Failed to run the gadget on all nodes: None of them succeeded"

\* trace.Status of one copy: State, OperationError, OperationWarning
Status == [state : States, err : OperationErrors \cup {""},
           warn : OperationWarnings \cup {""}]
Fresh == [state |-> "", err |-> "", warn |-> ""]
\* what the agent reports in the runs of RunTraceAndPrint*: the state reached,
\* an error, or a warning
Reports == {[state |-> Started, err |-> "", warn |-> ""],
            [state |-> "", err |-> "e1", warn |-> ""],
            [state |-> "", err |-> "", warn |-> "w1"]}
NoCopies == [n \in {} |-> Fresh]

EmptyLines == EmptyBag

----------------------------------------------------------------------------
(* printTraceFeedback and getIdenticalValue *)

MinOf(S) == CHOOSE x \in S : \A y \in S : x <= y

RECURSIVE IdenticalFold(_, _, _)
IdenticalFold(m, S, value) ==
    IF S = {} THEN value
    ELSE LET n == MinOf(S) IN
         IF value = "" THEN IdenticalFold(m, S \ {n}, m[n])
         ELSE IF value # m[n] THEN ""
         ELSE IdenticalFold(m, S \ {n}, value)

\* the common value of the map, "" when two values differ
getIdenticalValue(m) == IdenticalFold(m, DOMAIN m, "")

AllNodesLine(msg) == [all |-> TRUE, node |-> 0, msg |-> msg]
NodeLine(n, msg) == [all |-> FALSE, node |-> n, msg |-> msg]

\* printTraceFeedback without the test for identical messages
printTraceFeedback_PerNode(m, totalNodes) ==
    SetToBag({NodeLine(n, m[n]) : n \in DOMAIN m})

\* the lines printTraceFeedback writes to stderr, as a bag
printTraceFeedback(m, totalNodes) ==
    IF /\ Cardinality(DOMAIN m) > 1
       /\ Cardinality(DOMAIN m) = totalNodes
       /\ getIdenticalValue(m) # ""
    THEN SetToBag({AllNodesLine(getIdenticalValue(m))})
    ELSE SetToBag({NodeLine(n, m[n]) : n \in DOMAIN m})

----------------------------------------------------------------------------
(* deleteTraces, DeleteTrace *)

\* The delete-collection request on the label selector of the traceID; ok:
\* the request succeeded. A failure is printed and not returned.
deleteTraces(ok) ==
    /\ deleteRequests' = deleteRequests + 1
    /\ deleteFailures' = IF ok THEN deleteFailures ELSE deleteFailures + 1
    /\ copies' = IF ok THEN NoCopies ELSE copies

\* DeleteTrace returning the failure of the delete request
DeleteTrace_ReturnsDeleteError(clientOk, ok) ==
    IF clientOk
    THEN deleteTraces(ok) /\ deleteRet' = IF ok THEN "nil" ELSE "err"
    ELSE /\ deleteRet' = "err"
         /\ UNCHANGED <<copies, deleteRequests, deleteFailures>>

\* DeleteTrace: getRestClient, whose error is returned (clientOk is FALSE),
\* then deleteTraces and return nil
DeleteTrace(clientOk, ok) ==
    IF clientOk
    THEN deleteTraces(ok) /\ deleteRet' = "nil"
    ELSE /\ deleteRet' = "err"
         /\ UNCHANGED <<copies, deleteRequests, deleteFailures>>

----------------------------------------------------------------------------
(* waitForTraceState: one round of the RetryLoop *)

\* the copy falls into the last else branch of the classification
IsPending(st, expectedState) ==
    st.err = "" /\ st.warn = "" /\ st.state # expectedState

\* MustRetry without the timeout test
MustRetry_NoTimeout(items, expectedState, timeout) ==
    \E n \in DOMAIN items : IsPending(items[n], expectedState)

\* MustRetry that gives up the retry as soon as one copy is not pending
MustRetry_AllPending(items, expectedState, timeout) ==
    ~timeout /\ \A n \in DOMAIN items : IsPending(items[n], expectedState)

\* some copy makes the round be retried after the sleep
MustRetry(items, expectedState, timeout) ==
    ~timeout /\ \E n \in DOMAIN items : IsPending(items[n], expectedState)

nodeErrors(items, expectedState, timeout) ==
    [n \in {x \in DOMAIN items :
               \/ items[x].err # ""
               \/ timeout /\ IsPending(items[x], expectedState)} |->
        IF items[n].err # "" THEN items[n].err ELSE TimeoutMsg]

\* nodeWarnings that records the warning of a copy whose error is set too
nodeWarnings_IgnoresError(items) ==
    [n \in {x \in DOMAIN items : items[x].warn # ""} |-> items[n].warn]

nodeWarnings(items) ==
    [n \in {x \in DOMAIN items : items[x].err = "" /\ items[x].warn # ""} |->
        items[n].warn]

\* successNodeCount with the state tested before the error and the warning
successNodeCount_StateFirst(items, expectedState) ==
    Cardinality({n \in DOMAIN items : items[n].state = expectedState})

successNodeCount(items, expectedState) ==
    Cardinality({n \in DOMAIN items :
        /\ items[n].err = ""
        /\ items[n].warn = ""
        /\ items[n].state = expectedState})

\* RoundOutput with the warnings printed whether or not a node succeeded
RoundOutput_WarningsAlways(items, expectedState, timeout) ==
    printTraceFeedback(nodeWarnings(items), Cardinality(DOMAIN items))
    (+) printTraceFeedback(nodeErrors(items, expectedState, timeout),
                           Cardinality(DOMAIN items))

\* what the returning round prints: the warnings first (only when no node
\* succeeded), then the deferred printTraceFeedback(nodeErrors)
RoundOutput(items, expectedState, timeout) ==
    (IF successNodeCount(items, expectedState) = 0
     THEN printTraceFeedback(nodeWarnings(items), Cardinality(DOMAIN items))
     ELSE EmptyLines)
    (+) printTraceFeedback(nodeErrors(items, expectedState, timeout),
                           Cardinality(DOMAIN items))

RoundResult(items, expectedState) ==
    IF successNodeCount(items, expectedState) = 0 THEN NoneSucceeded ELSE "ok"

\* waitForTraceState cleaning up the copies itself when no node succeeded
waitForTraceState_Deleting(expectedState, listOk) ==
    LET timeout == clock > traceTimeout IN
    IF ~listOk \/ DOMAIN copies = {}
    THEN /\ waitRet' = ListError
         /\ snapshot' = NoCopies
         /\ clock' = 0
         /\ UNCHANGED <<stderr, copies, deleteRequests, deleteFailures>>
    ELSE IF MustRetry(copies, expectedState, timeout)
    THEN /\ waitRet' = "retry"
         /\ clock' = clock + retrySleep
         /\ UNCHANGED <<stderr, snapshot, copies, deleteRequests,
                        deleteFailures>>
    ELSE /\ waitRet' = RoundResult(copies, expectedState)
         /\ stderr' = stderr (+) RoundOutput(copies, expectedState, timeout)
         /\ snapshot' = copies
         /\ clock' = 0
         /\ IF waitRet' = "ok"
            THEN UNCHANGED <<copies, deleteRequests, deleteFailures>>
            ELSE deleteTraces(TRUE)

\* One iteration of RetryLoop. listOk: the list request succeeded. Sets
\* waitRet' to "retry", "ok" or to the error returned. The clock counts the
\* sleeps; start is a local of the call, so the clock is 0 again on return.
waitForTraceState(expectedState, listOk) ==
    LET timeout == clock > traceTimeout IN
    /\ IF ~listOk \/ DOMAIN copies = {}
       THEN \* getTraceListFromID failed, or found no trace
            /\ waitRet' = ListError
            /\ snapshot' = NoCopies
            /\ clock' = 0
            /\ UNCHANGED <<stderr, copies, deleteRequests, deleteFailures>>
       ELSE IF MustRetry(copies, expectedState, timeout)
       THEN /\ waitRet' = "retry"
            /\ clock' = clock + retrySleep
            /\ UNCHANGED <<stderr, snapshot, copies, deleteRequests,
                           deleteFailures>>
       ELSE /\ waitRet' = RoundResult(copies, expectedState)
            /\ stderr' = stderr (+) RoundOutput(copies, expectedState, timeout)
            /\ snapshot' = copies
            /\ clock' = 0
            /\ UNCHANGED <<copies, deleteRequests, deleteFailures>>

----------------------------------------------------------------------------
(* the agent on the nodes, outside the program: it fills in the status of a *)
(* copy once                                                                *)

AgentReport(n, st) ==
    /\ ~exited
    /\ n \in DOMAIN copies
    /\ copies[n] = Fresh
    /\ st # Fresh
    /\ copies' = [copies EXCEPT ![n] = st]
    /\ UNCHANGED <<nodes, posted, deleteRet, cfgNode, cfgInitialState,
                   cfgModeOk, pc, traceID, k, clock, waitRet, createRet,
                   rollback, runRet, stderr, snapshot, hpc,
                   sigIntReceivedNumber, exited, deleteRequests,
                   deleteFailures>>
    /\ UNCHANGED <<tracerVars, streamVars, opVars>>

----------------------------------------------------------------------------
(* RunTraceAndPrintStream / RunTraceAndPrintStatusOutput *)

\* sigHandler(&traceID), then the output mode test
RunTraceStart ==
    /\ ~exited
    /\ pc = "start"
    /\ hpc' = [hpc EXCEPT ![1] = "armed"]
    /\ IF cfgModeOk
       THEN pc' = "create" /\ UNCHANGED runRet
       ELSE pc' = "done" /\ runRet' = "err"
    /\ UNCHANGED <<nodes, posted, deleteRet, cfgNode, cfgInitialState,
                   cfgModeOk, traceID, k, copies, clock, waitRet, createRet,
                   rollback, stderr, snapshot, sigIntReceivedNumber, exited,
                   deleteRequests, deleteFailures>>
    /\ UNCHANGED <<tracerVars, streamVars, opVars>>

\* CreateTrace up to the node list of createTraces; listOk: the client could
\* be set up and the nodes listed
CreateTrace(listOk) ==
    /\ ~exited
    /\ pc = "create"
    /\ IF listOk
       THEN /\ pc' = "post"
            /\ k' = 1
            /\ UNCHANGED <<createRet, runRet>>
       ELSE /\ pc' = "done"
            /\ createRet' = "errList"
            /\ runRet' = "err"
            /\ UNCHANGED k
    /\ UNCHANGED <<nodes, posted, deleteRet, cfgNode, cfgInitialState,
                   cfgModeOk, traceID, copies, clock, waitRet, rollback,
                   stderr, snapshot, hpc, sigIntReceivedNumber, exited,
                   deleteRequests, deleteFailures>>
    /\ UNCHANGED <<tracerVars, streamVars, opVars>>

\* the nodes of nodes.Items from index i on that the loop does not skip
Targets(i) == {n \in nodes : n >= i /\ (cfgNode = 0 \/ n = cfgNode)}

\* the label GLOBAL_TRACE_ID that CreateTrace puts on the trace object:
\* randomTraceID(), called once
TraceLabel == "id"

\* the trace object posted for the item n of nodes.Items: its Spec.Node is
\* config.CommonFlags.Node, which for "" is set to node.Name, and its labels
\* are those set by CreateTrace
PostBody(n) ==
    [node |-> IF cfgNode = 0 THEN n ELSE cfgNode, label |-> TraceLabel]

\* createTracesFailed returning the error without the clean-up
createTracesFailed_NoClean(deleteOk) ==
    /\ createRet' = "errCreate"
    /\ runRet' = "err"
    /\ pc' = "done"
    /\ UNCHANGED <<copies, rollback, deleteRequests, deleteFailures>>

\* createTraces, the Post returned an error: the label is present, so the
\* copies are deleted ("Clean before exiting!") and the error is returned
\* through CreateTrace and RunTraceAndPrint*
createTracesFailed(deleteOk) ==
    /\ deleteTraces(deleteOk)
    /\ rollback' = IF deleteOk THEN "ok" ELSE "failed"
    /\ createRet' = "errCreate"
    /\ runRet' = "err"
    /\ pc' = "done"

\* createTraces: the loop up to and including the next Post, and what
\* CreateTrace does when createTraces returns. postOk, deleteOk: the requests
\* succeeded.
createTraces(postOk, deleteOk) ==
    /\ ~exited
    /\ pc = "post"
    /\ IF Targets(k) = {}
       THEN \* the loop is over: createTraces returns nil
            /\ IF cfgInitialState # ""
               THEN /\ pc' = "initWait"
                    /\ clock' = 0
                    /\ UNCHANGED <<traceID, createRet>>
               ELSE /\ pc' = "created"
                    /\ traceID' = "id"
                    /\ createRet' = "ok"
                    /\ UNCHANGED clock
            /\ UNCHANGED <<k, copies, posted, rollback, runRet,
                           deleteRequests, deleteFailures>>
       ELSE LET n == MinOf(Targets(k)) IN
            IF postOk
            THEN /\ copies' = (n :> Fresh) @@ copies
                 /\ posted' = Append(posted, PostBody(n))
                 /\ k' = n + 1
                 /\ UNCHANGED <<pc, traceID, clock, createRet,
                                rollback, runRet, deleteRequests,
                                deleteFailures>>
            ELSE /\ createTracesFailed(deleteOk)
                 /\ UNCHANGED <<k, traceID, clock, posted>>
    /\ UNCHANGED <<nodes, deleteRet, cfgNode, cfgInitialState, cfgModeOk,
                   waitRet, stderr, snapshot, hpc, sigIntReceivedNumber,
                   exited>>
    /\ UNCHANGED <<tracerVars, streamVars, opVars>>

\* CreateTrace, config.TraceInitialState != "": one round of
\* waitForTraceState(traceID, config.TraceInitialState)
CreateTraceWait(listOk) ==
    /\ ~exited
    /\ pc = "initWait"
    /\ waitForTraceState(cfgInitialState, listOk)
    /\ IF waitRet' = "retry"
       THEN UNCHANGED <<pc, traceID, createRet>>
       ELSE IF waitRet' = "ok"
       THEN /\ pc' = "created"
            /\ traceID' = "id"
            /\ createRet' = "ok"
       ELSE /\ pc' = "rollback"
            /\ UNCHANGED <<traceID, createRet>>
    /\ UNCHANGED <<nodes, posted, deleteRet, cfgNode, cfgInitialState,
                   cfgModeOk, k, rollback, runRet, hpc, sigIntReceivedNumber,
                   exited>>
    /\ UNCHANGED <<tracerVars, streamVars, opVars>>

\* CreateTraceRollback returning the error without DeleteTrace
CreateTraceRollback_NoDelete(deleteOk) ==
    /\ ~exited
    /\ pc = "rollback"
    /\ createRet' = "errWait"
    /\ runRet' = "err"
    /\ pc' = "done"
    /\ UNCHANGED <<nodes, posted, deleteRet, cfgNode, cfgInitialState,
                   cfgModeOk, traceID, k, clock, waitRet, stderr, snapshot,
                   hpc, sigIntReceivedNumber, exited, copies, rollback,
                   deleteRequests, deleteFailures>>
    /\ UNCHANGED <<tracerVars, streamVars, opVars>>

\* CreateTrace after waitForTraceState returned an error: DeleteTrace, then
\* return "", err (and RunTraceAndPrint* returns the error). getRestClient
\* has succeeded in createTraces of the same call, with the same
\* configuration, and succeeds again.
CreateTraceRollback(deleteOk) ==
    /\ ~exited
    /\ pc = "rollback"
    /\ DeleteTrace(TRUE, deleteOk)
    /\ rollback' = IF deleteOk THEN "ok" ELSE "failed"
    /\ createRet' = "errWait"
    /\ runRet' = "err"
    /\ pc' = "done"
    /\ UNCHANGED <<nodes, posted, cfgNode, cfgInitialState, cfgModeOk,
                   traceID, k, clock, waitRet, stderr, snapshot, hpc,
                   sigIntReceivedNumber, exited>>
    /\ UNCHANGED <<tracerVars, streamVars, opVars>>

\* CreateTrace has returned the traceID: defer DeleteTrace(traceID), then
\* PrintTraceOutputFromStream / PrintTraceOutputFromStatus enters
\* waitForTraceState (start := time.Now())
PrintTraceOutput ==
    /\ ~exited
    /\ pc = "created"
    /\ pc' = "outWait"
    /\ clock' = 0
    /\ UNCHANGED <<nodes, posted, deleteRet, cfgNode, cfgInitialState,
                   cfgModeOk, traceID, k, copies, waitRet, createRet,
                   rollback, runRet, stderr, snapshot, hpc,
                   sigIntReceivedNumber, exited, deleteRequests,
                   deleteFailures>>
    /\ UNCHANGED <<tracerVars, streamVars, opVars>>

\* a wait phase whose error skips the DeleteTrace of the caller
PrintTraceOutputWait_NoDeleteOnError(listOk) ==
    /\ ~exited
    /\ pc = "outWait"
    /\ waitForTraceState(Started, listOk)
    /\ IF waitRet' = "retry"
       THEN UNCHANGED <<pc, runRet>>
       ELSE IF waitRet' = "ok"
       THEN pc' = "display" /\ UNCHANGED runRet
       ELSE pc' = "done" /\ runRet' = "err"
    /\ UNCHANGED <<nodes, posted, deleteRet, cfgNode, cfgInitialState,
                   cfgModeOk, traceID, k, createRet, rollback, hpc,
                   sigIntReceivedNumber, exited>>
    /\ UNCHANGED <<tracerVars, streamVars, opVars>>

\* PrintTraceOutputFrom*: one round of waitForTraceState(traceID,
\* config.TraceOutputState)
PrintTraceOutputWait(listOk) ==
    /\ ~exited
    /\ pc = "outWait"
    /\ waitForTraceState(Started, listOk)
    /\ IF waitRet' = "retry"
       THEN UNCHANGED <<pc, runRet>>
       ELSE IF waitRet' = "ok"
       THEN pc' = "display" /\ UNCHANGED runRet
       ELSE pc' = "deferred" /\ runRet' = "err"
    /\ UNCHANGED <<nodes, posted, deleteRet, cfgNode, cfgInitialState,
                   cfgModeOk, traceID, k, createRet, rollback, hpc,
                   sigIntReceivedNumber, exited>>
    /\ UNCHANGED <<tracerVars, streamVars, opVars>>

\* genericStreamsDisplay / customResultsDisplay returns; ok: without error
Display(ok) ==
    /\ ~exited
    /\ pc = "display"
    /\ pc' = "deferred"
    /\ runRet' = IF ok THEN "ok" ELSE "err"
    /\ UNCHANGED <<nodes, posted, deleteRet, cfgNode, cfgInitialState,
                   cfgModeOk, traceID, k, copies, clock, waitRet, createRet,
                   rollback, stderr, snapshot, hpc, sigIntReceivedNumber,
                   exited, deleteRequests, deleteFailures>>
    /\ UNCHANGED <<tracerVars, streamVars, opVars>>

\* the deferred DeleteTrace(traceID) of RunTraceAndPrint*, or DeleteTrace
\* called by the owner of a traceID; its result is dropped and the caller
\* goes on
DeferredDeleteTrace(clientOk, deleteOk) ==
    /\ ~exited
    /\ pc = "deferred"
    /\ DeleteTrace(clientOk, deleteOk)
    /\ pc' = "done"
    /\ UNCHANGED <<nodes, posted, cfgNode, cfgInitialState, cfgModeOk,
                   traceID, k, clock, waitRet, createRet, rollback, runRet,
                   stderr, snapshot, hpc, sigIntReceivedNumber, exited>>
    /\ UNCHANGED <<tracerVars, streamVars, opVars>>

----------------------------------------------------------------------------
(* sigHandler *)

Signals == {"SIGINT", "SIGTERM"}
Goroutines == 1..2

\* sigHandler that goes on to the deletion on every SIGINT
sigHandler_NoSecondExit(g, sig) ==
    /\ ~exited
    /\ hpc[g] = "armed"
    /\ IF sig = "SIGINT"
       THEN /\ sigIntReceivedNumber' = sigIntReceivedNumber + 1
            /\ hpc' = [h \in Goroutines |->
                          IF h = g THEN "delete"
                          ELSE IF h = g + 1 THEN "armed" ELSE hpc[h]]
            /\ UNCHANGED exited
       ELSE /\ hpc' = [hpc EXCEPT ![g] = "delete"]
            /\ UNCHANGED <<sigIntReceivedNumber, exited>>
    /\ UNCHANGED <<nodes, posted, deleteRet, cfgNode, cfgInitialState,
                   cfgModeOk, pc, traceID, k, copies, clock, waitRet,
                   createRet, rollback, runRet, stderr, snapshot,
                   deleteRequests, deleteFailures>>
    /\ UNCHANGED <<tracerVars, streamVars, opVars>>

\* A goroutine blocked in sig := <-c receives the signal; on SIGINT it counts
\* it, exits the program on the second one and otherwise installs the handler
\* again; then it goes on to the deletion.
sigHandler(g, sig) ==
    /\ ~exited
    /\ hpc[g] = "armed"
    /\ IF sig = "SIGINT"
       THEN /\ sigIntReceivedNumber' = sigIntReceivedNumber + 1
            /\ IF sigIntReceivedNumber' > 1
               THEN exited' = TRUE /\ UNCHANGED hpc
               ELSE /\ hpc' = [hpc EXCEPT ![g] = "delete", ![g + 1] = "armed"]
                    /\ UNCHANGED exited
       ELSE /\ hpc' = [hpc EXCEPT ![g] = "delete"]
            /\ UNCHANGED <<sigIntReceivedNumber, exited>>
    /\ UNCHANGED <<nodes, posted, deleteRet, cfgNode, cfgInitialState,
                   cfgModeOk, pc, traceID, k, copies, clock, waitRet,
                   createRet, rollback, runRet, stderr, snapshot,
                   deleteRequests, deleteFailures>>
    /\ UNCHANGED <<tracerVars, streamVars, opVars>>

\* if *traceID != "" { DeleteTrace(*traceID) }; os.Exit(1). The read of
\* *traceID is not synchronised with the assignment made by the calling task
\* when CreateTrace returns: seen is the value read, the one assigned or the
\* initial "".
sigHandlerDelete(g, seen, deleteOk) ==
    /\ ~exited
    /\ hpc[g] = "delete"
    /\ seen \in {traceID, ""}
    /\ IF seen # ""
       THEN DeleteTrace(TRUE, deleteOk)
       ELSE UNCHANGED <<copies, deleteRequests, deleteFailures, deleteRet>>
    /\ exited' = TRUE
    /\ UNCHANGED <<nodes, posted, cfgNode, cfgInitialState, cfgModeOk, pc,
                   traceID, k, clock, waitRet, createRet, rollback, runRet,
                   stderr, snapshot, hpc, sigIntReceivedNumber>>
    /\ UNCHANGED <<tracerVars, streamVars, opVars>>

----------------------------------------------------------------------------
(* The tcpconnect Tracer: NewTracer, Run, install, close, run *)

MaxEvents == 2
MaxCloses == 2
MaxLoops == 2

\* the goroutines that go t.run() can start on one Tracer
Loops == 1..MaxLoops

LinkNames == {"v4EnterLink", "v4ExitLink", "v6EnterLink", "v6ExitLink",
              "tcpDestroySockLink", "tcpRvcStateProcessLink"}

NoLinks == [h \in LinkNames |-> FALSE]
NoAttachments == [h \in LinkNames |-> 0]
NoLoops == [i \in Loops |-> "off"]

\* what t.reader.Read() returns: a perf.Record carrying a sample of the
\* mount namespace MntnsId, a perf.Record with LostSamples > 0, or an error
MntnsIds == {1, 2}
LostCounts == {1, 2}
ErrClosed == "perf.ErrClosed"
ReadError == "EIO"
SampleRecords == [err : {""}, LostSamples : {0}, MntnsId : MntnsIds]
LostRecords == [err : {""}, LostSamples : LostCounts, MntnsId : {0}]
FailedRead(e) == [err |-> e, LostSamples |-> 0, MntnsId |-> 0]
ReadResults == SampleRecords \cup LostRecords
                   \cup {FailedRead(ErrClosed), FailedRead(ReadError)}

\* the step of install that follows step at, in the mode selected
NextInstallStep(at, latency) ==
    CASE at = "load" -> "v4EnterLink"
      [] at = "v4EnterLink" -> "v6EnterLink"
      [] at = "v6EnterLink" ->
            IF ~latency THEN "v4ExitLink" ELSE "tcpDestroySockLink"
      [] at = "v4ExitLink" -> "v6ExitLink"
      [] at = "tcpDestroySockLink" -> "tcpRvcStateProcessLink"
      [] at \in {"v6ExitLink", "tcpRvcStateProcessLink"} -> "reader"
      [] at = "reader" -> "end"

\* close without the release of the return probes
close_ForgetsExitLinks ==
    /\ kernel' = [h \in LinkNames |->
                     IF links[h] /\ h \notin {"v4ExitLink", "v6ExitLink"}
                     THEN kernel[h] - 1 ELSE kernel[h]]
    /\ links' = [h \in LinkNames |->
                    links[h] /\ h \in {"v4ExitLink", "v6ExitLink"}]
    /\ objs' = FALSE
    /\ closeCalls' = closeCalls + 1

\* close that does not store the nil that CloseLink returns
close_KeepsLinkFields ==
    /\ kernel' = [h \in LinkNames |->
                     IF links[h] THEN kernel[h] - 1 ELSE kernel[h]]
    /\ links' = links
    /\ objs' = FALSE
    /\ closeCalls' = closeCalls + 1

\* Tracer.close: gadgets.CloseLink on each link field (closes a non-nil link
\* and sets the field to nil), then t.objs.Close(); the reader is not touched
close ==
    /\ kernel' = [h \in LinkNames |->
                     IF links[h] THEN kernel[h] - 1 ELSE kernel[h]]
    /\ links' = NoLinks
    /\ objs' = FALSE
    /\ closeCalls' = closeCalls + 1

\* NewTracer: the Tracer is allocated and install is entered
NewTracer ==
    /\ tEntry = "NewTracer"
    /\ tpc = "start"
    /\ tpc' = "install"
    /\ ipc' = "load"
    /\ UNCHANGED <<tEntry, tLatency, enricher, links, kernel, objs, reader,
                   tRet, loopPc, reads, events, closeCalls>>
    /\ UNCHANGED <<orchVars, streamVars, opVars>>

\* Tracer.Run on the instance of NewInstance: the configuration is read,
\* close is deferred and install is entered
Run ==
    /\ tEntry = "Run"
    /\ tpc = "start"
    /\ tpc' = "install"
    /\ ipc' = "load"
    /\ UNCHANGED <<tEntry, tLatency, enricher, links, kernel, objs, reader,
                   tRet, loopPc, reads, events, closeCalls>>
    /\ UNCHANGED <<orchVars, streamVars, opVars>>

\* Tracer.Run called once more on an instance whose Run has returned: no
\* field of the Tracer records that it was closed
RunAgain ==
    /\ tEntry = "Run"
    /\ tpc = "returned"
    /\ closeCalls < MaxCloses
    /\ tpc' = "install"
    /\ ipc' = "load"
    /\ tRet' = "none"
    /\ UNCHANGED <<tEntry, tLatency, enricher, links, kernel, objs, reader,
                   loopPc, reads, events, closeCalls>>
    /\ UNCHANGED <<orchVars, streamVars, opVars>>

\* Tracer.install, one step: the load of the objects, an attachment, or the
\* creation of the perf reader; ok: the step succeeded. A failed attachment
\* assigns nil to its field and makes install return the error.
install(ok) ==
    /\ tpc = "install"
    /\ IF ipc = "load"
       THEN objs' = ok /\ UNCHANGED <<links, kernel, reader>>
       ELSE IF ipc = "reader"
       THEN /\ reader' = IF ok THEN "open" ELSE reader
            /\ UNCHANGED <<links, kernel, objs>>
       ELSE /\ links' = [links EXCEPT ![ipc] = ok]
            /\ kernel' = [kernel EXCEPT ![ipc] = IF ok THEN @ + 1 ELSE @]
            /\ UNCHANGED <<objs, reader>>
    /\ IF ~ok
       THEN tpc' = "installFailed" /\ UNCHANGED ipc
       ELSE IF NextInstallStep(ipc, tLatency) = "end"
       THEN tpc' = "installed" /\ UNCHANGED ipc
       ELSE ipc' = NextInstallStep(ipc, tLatency) /\ UNCHANGED tpc
    /\ UNCHANGED <<tEntry, tLatency, enricher, tRet, loopPc, reads, events,
                   closeCalls>>
    /\ UNCHANGED <<orchVars, streamVars, opVars>>

\* install returned an error: NewTracer calls t.close() and returns nil, err;
\* Run returns the error and its deferred t.close() runs
installFailed ==
    /\ tpc = "installFailed"
    /\ close
    /\ tRet' = "err"
    /\ tpc' = "returned"
    /\ UNCHANGED <<tEntry, tLatency, enricher, ipc, reader, loopPc, reads,
                   events>>
    /\ UNCHANGED <<orchVars, streamVars, opVars>>

\* go t.run(): the next goroutine of the Tracer starts to read
FreeLoops == {i \in Loops : loopPc[i] = "off"}
GoRun == [loopPc EXCEPT ![MinOf(FreeLoops)] = "reading"]

\* install returned nil in NewTracer: go t.run(); return t, nil
NewTracerInstalled ==
    /\ tEntry = "NewTracer"
    /\ tpc = "installed"
    /\ FreeLoops # {}
    /\ loopPc' = GoRun
    /\ tRet' = "ok"
    /\ tpc' = "returned"
    /\ UNCHANGED <<tEntry, tLatency, enricher, ipc, links, kernel, objs,
                   reader, reads, events, closeCalls>>
    /\ UNCHANGED <<orchVars, streamVars, opVars>>

\* install returned nil in Run: go t.run(); WaitForTimeoutOrDone
RunInstalled ==
    /\ tEntry = "Run"
    /\ tpc = "installed"
    /\ FreeLoops # {}
    /\ loopPc' = GoRun
    /\ tpc' = "wait"
    /\ UNCHANGED <<tEntry, tLatency, enricher, ipc, links, kernel, objs,
                   reader, tRet, reads, events, closeCalls>>
    /\ UNCHANGED <<orchVars, streamVars, opVars>>

\* Run: the gadget context timed out or is done; the deferred t.close() runs
\* and Run returns nil
RunDone ==
    /\ tEntry = "Run"
    /\ tpc = "wait"
    /\ close
    /\ tRet' = "ok"
    /\ tpc' = "returned"
    /\ UNCHANGED <<tEntry, tLatency, enricher, ipc, reader, loopPc, reads,
                   events>>
    /\ UNCHANGED <<orchVars, streamVars, opVars>>

\* Stop, called by the owner of the Tracer: of a Tracer that NewTracer
\* returned, or of the instance of NewInstance before Run, while Run waits
\* (the loop is running), or after Run returned
Stop ==
    /\ \/ tEntry = "NewTracer" /\ tpc = "returned" /\ tRet = "ok"
       \/ tEntry = "Run" /\ tpc \in {"start", "wait", "returned"}
    /\ closeCalls < MaxCloses
    /\ close
    /\ UNCHANGED <<tEntry, tLatency, enricher, tpc, ipc, reader, tRet, loopPc,
                   reads, events>>
    /\ UNCHANGED <<orchVars, streamVars, opVars>>

\* the events given to eventCallback
ErrEvent(cause) ==
    [Type |-> "ERR", Message |-> cause, Lost |-> 0, MountNsID |-> 0,
     Enriched |-> FALSE]
WarnEvent(lost) ==
    [Type |-> "WARN", Message |-> "lost samples", Lost |-> lost,
     MountNsID |-> 0, Enriched |-> FALSE]
NormalEvent(r, enriched) ==
    [Type |-> "NORMAL", Message |-> "", Lost |-> 0, MountNsID |-> r.MntnsId,
     Enriched |-> enriched]

\* what t.reader.Read() can return: perf.ErrClosed once the reader is
\* closed; before that a record or another error
ReadOutcomes ==
    IF reader = "closed"
    THEN {FailedRead(ErrClosed)}
    ELSE ReadResults \ {FailedRead(ErrClosed)}

\* an iteration that reports the closed reader as a read error
Callbacks_ErrOnClosed(r, enr) ==
    IF r.err # "" THEN <<ErrEvent(r.err)>>
    ELSE IF r.LostSamples > 0 THEN <<WarnEvent(r.LostSamples)>>
    ELSE <<NormalEvent(r, enr)>>

\* an iteration that does not call the enricher
Callbacks_NoEnrich(r, enr) ==
    IF r.err # ""
    THEN IF r.err = ErrClosed THEN <<>> ELSE <<ErrEvent(r.err)>>
    ELSE IF r.LostSamples > 0 THEN <<WarnEvent(r.LostSamples)>>
    ELSE <<NormalEvent(r, FALSE)>>

\* Tracer.run, the calls of t.eventCallback made by the iteration whose Read
\* returned r; enr: t.enricher != nil
Callbacks(r, enr) ==
    IF r.err # ""
    THEN IF r.err = ErrClosed THEN <<>> ELSE <<ErrEvent(r.err)>>
    ELSE IF r.LostSamples > 0 THEN <<WarnEvent(r.LostSamples)>>
    ELSE <<NormalEvent(r, enr)>>

\* a loop that returns when samples were lost
Returns_OnLost(r) == r.err # "" \/ r.LostSamples > 0

\* a loop that goes on reading after a read error
Returns_NotOnError(r) == r.err = ErrClosed

\* Tracer.run: the iteration whose Read returned r ends with return
Returns(r) == r.err # ""

\* Tracer.run, one iteration of the loop of goroutine i: the Read and what
\* follows it up to the next Read or the return
run(i, r) ==
    /\ loopPc[i] = "reading"
    /\ r \in ReadOutcomes
    /\ r.err = "" => Len(reads) < MaxEvents
    /\ reads' = Append(reads, r)
    /\ events' = events \o Callbacks(r, enricher)
    /\ loopPc' = [loopPc EXCEPT ![i] = IF Returns(r) THEN "done" ELSE @]
    /\ UNCHANGED <<tEntry, tLatency, enricher, tpc, ipc, links, kernel, objs,
                   reader, tRet, closeCalls>>
    /\ UNCHANGED <<orchVars, streamVars, opVars>>

\* the perf reader is closed. Tracer.close does not close it and no other
\* function of the Tracer does: here it is closed from outside the Tracer,
\* while a loop is blocked in Read
readerClose ==
    /\ reader = "open"
    /\ \E i \in Loops : loopPc[i] = "reading"
    /\ reader' = "closed"
    /\ UNCHANGED <<tEntry, tLatency, enricher, tpc, ipc, links, kernel, objs,
                   tRet, loopPc, reads, events, closeCalls>>
    /\ UNCHANGED <<orchVars, streamVars, opVars>>

\* no tracer is in use
TracerIdle ==
    /\ tEntry = "NewTracer"
    /\ tLatency = FALSE
    /\ enricher = FALSE
    /\ tpc = "start"
    /\ ipc = "load"
    /\ links = NoLinks
    /\ kernel = NoAttachments
    /\ objs = FALSE
    /\ reader = "nil"
    /\ tRet = "none"
    /\ loopPc = NoLoops
    /\ reads = <<>>
    /\ events = <<>>
    /\ closeCalls = 0

----------------------------------------------------------------------------
(* genericStreamsDisplay: the branches, the completion channel, the loop *)

\* no branch was launched
NoBranches == [n \in Nodes |-> "none"]

\* the lines printed on stdout
CompletionLine(n, ok) ==
    [text |-> IF ok THEN "Trace completed on node"
                    ELSE "Error running command on node",
     node |-> n]
TerminatingLine == [text |-> "Terminating...", node |-> 0]

\* the branches launched so far, and those whose goroutine has not ended
Launched == {n \in Nodes : branch[n] # "none"}
InFlight == {n \in Nodes : branch[n] \in {"exec", "sendOk", "sendErr"}}

\* a signal reaches the process: signal.Notify puts it in sigs, which holds
\* one signal, and drops it when sigs is full
Notify(sig) ==
    /\ apc # "off"
    /\ sigs = 0
    /\ sigs' = 1
    /\ UNCHANGED <<sItems, sNode, sJson, apc, todo, streamCount, branch,
                   stdout, sRet>>
    /\ UNCHANGED <<orchVars, tracerVars, opVars>>

\* k8sutil.NewClientsetFromConfigFlags; on an error genericStreamsDisplay
\* returns it
NewClientset(ok) ==
    /\ apc = "client"
    /\ IF ok
       THEN apc' = "launch" /\ UNCHANGED sRet
       ELSE apc' = "failed" /\ sRet' = "err"
    /\ UNCHANGED <<sItems, sNode, sJson, todo, streamCount, branch, sigs,
                   stdout>>
    /\ UNCHANGED <<orchVars, tracerVars, opVars>>

\* a launch loop that counts an item before the test of its node
Launch_CountsSkipped ==
    /\ apc = "launch"
    /\ todo # {}
    /\ LET n == MinOf(todo)
       IN  /\ todo' = todo \ {n}
           /\ streamCount' = streamCount + 1
           /\ IF sNode # 0 /\ n # sNode
              THEN UNCHANGED branch
              ELSE branch' = [branch EXCEPT ![n] = "exec"]
    /\ apc' = IF todo' = {} THEN "select" ELSE "launch"
    /\ UNCHANGED <<sItems, sNode, sJson, sigs, stdout, sRet>>
    /\ UNCHANGED <<orchVars, tracerVars, opVars>>

\* one iteration of the loop over results.Items, in order: an item of another
\* node than params.Node is skipped, else streamCount is incremented and
\* the goroutine of the item is started; after the last item the select loop
\* is entered
Launch ==
    /\ apc = "launch"
    /\ todo # {}
    /\ LET n == MinOf(todo)
       IN  /\ todo' = todo \ {n}
           /\ IF sNode # 0 /\ n # sNode
              THEN UNCHANGED <<streamCount, branch>>
              ELSE /\ streamCount' = streamCount + 1
                   /\ branch' = [branch EXCEPT ![n] = "exec"]
    /\ apc' = IF todo' = {} THEN "select" ELSE "launch"
    /\ UNCHANGED <<sItems, sNode, sJson, sigs, stdout, sRet>>
    /\ UNCHANGED <<orchVars, tracerVars, opVars>>

\* a branch whose remote command failed and that ends without a notification
ExecPod_SilentOnError(n, ok) ==
    /\ branch[n] = "exec"
    /\ branch' = [branch EXCEPT ![n] = IF ok THEN "sendOk" ELSE "done"]
    /\ UNCHANGED <<sItems, sNode, sJson, apc, todo, streamCount, sigs,
                   stdout, sRet>>
    /\ UNCHANGED <<orchVars, tracerVars, opVars>>

\* the goroutine of node n: ExecPod returns, with or without an error, and
\* the goroutine goes on to send its message on completion
ExecPod(n, ok) ==
    /\ branch[n] = "exec"
    /\ branch' = [branch EXCEPT ![n] = IF ok THEN "sendOk" ELSE "sendErr"]
    /\ UNCHANGED <<sItems, sNode, sJson, apc, todo, streamCount, sigs,
                   stdout, sRet>>
    /\ UNCHANGED <<orchVars, tracerVars, opVars>>

\* a select that reports the cancellation as an error
SelectSigs_Error ==
    /\ apc = "select"
    /\ sigs = 1
    /\ sigs' = 0
    /\ stdout' = IF sJson THEN stdout ELSE Append(stdout, TerminatingLine)
    /\ apc' = "cancelled"
    /\ sRet' = "err"
    /\ UNCHANGED <<sItems, sNode, sJson, todo, streamCount, branch>>
    /\ UNCHANGED <<orchVars, tracerVars, opVars>>

\* select, case <-sigs: "Terminating..." is printed unless the output mode
\* is JSON, and nil is returned
SelectSigs ==
    /\ apc = "select"
    /\ sigs = 1
    /\ sigs' = 0
    /\ stdout' = IF sJson THEN stdout ELSE Append(stdout, TerminatingLine)
    /\ apc' = "cancelled"
    /\ sRet' = "nil"
    /\ UNCHANGED <<sItems, sNode, sJson, todo, streamCount, branch>>
    /\ UNCHANGED <<orchVars, tracerVars, opVars>>

\* select, case msg := <-completion: the send of the goroutine of node n
\* and the receive meet (the channel has no buffer); the message is printed,
\* streamCount is decremented, and nil is returned when it is 0
SelectCompletion(n) ==
    /\ apc = "select"
    /\ branch[n] \in {"sendOk", "sendErr"}
    /\ branch' = [branch EXCEPT ![n] = "done"]
    /\ stdout' = Append(stdout, CompletionLine(n, branch[n] = "sendOk"))
    /\ streamCount' = streamCount - 1
    /\ IF streamCount' = 0
       THEN apc' = "completed" /\ sRet' = "nil"
       ELSE UNCHANGED <<apc, sRet>>
    /\ UNCHANGED <<sItems, sNode, sJson, todo, sigs>>
    /\ UNCHANGED <<orchVars, tracerVars, opVars>>

\* genericStreamsDisplay is not running
StreamIdle ==
    /\ sItems = {}
    /\ sNode = 0
    /\ sJson = FALSE
    /\ apc = "off"
    /\ todo = {}
    /\ streamCount = 0
    /\ branch = NoBranches
    /\ sigs = 0
    /\ stdout = <<>>
    /\ sRet = "none"

----------------------------------------------------------------------------
(* SetTraceOperation, updateTraceOperation *)

\* SetTraceOperation, up to the loop: getTraceListFromID fails when the list
\* request fails (listOk is FALSE) or when no trace has the traceID, and
\* its error is returned
SetTraceOperation(listOk) ==
    /\ opPc = "list"
    /\ IF ~listOk
       THEN opList' = "err" /\ opErr' = TRUE /\ opPc' = "returned"
                            /\ UNCHANGED opTodo
       ELSE IF DOMAIN copies = {}
       THEN opList' = "empty" /\ opErr' = TRUE /\ opPc' = "returned"
                              /\ UNCHANGED opTodo
       ELSE opList' = "ok" /\ opTodo' = DOMAIN copies /\ opPc' = "update"
                           /\ UNCHANGED opErr
    /\ UNCHANGED <<opPatched, opFailed>>
    /\ UNCHANGED <<orchVars, tracerVars, streamVars>>

\* a loop that returns at the first update that fails
updateTraceOperation_StopsAtFailure(ok) ==
    /\ opPc = "update"
    /\ LET n == MinOf(opTodo)
       IN  /\ opTodo' = opTodo \ {n}
           /\ IF ok
              THEN opPatched' = opPatched \cup {n} /\ UNCHANGED <<opFailed, opErr>>
              ELSE opFailed' = opFailed \cup {n} /\ opErr' = TRUE
                                                 /\ UNCHANGED opPatched
    /\ opPc' = IF opTodo' = {} \/ ~ok THEN "returned" ELSE "update"
    /\ UNCHANGED opList
    /\ UNCHANGED <<orchVars, tracerVars, streamVars>>

\* one iteration of the loop of SetTraceOperation over traces.Items:
\* updateTraceOperation patches the annotation of the trace; ok: it
\* returned nil. An error is wrapped into err and the loop goes on; after the
\* last item err is returned.
updateTraceOperation(ok) ==
    /\ opPc = "update"
    /\ LET n == MinOf(opTodo)
       IN  /\ opTodo' = opTodo \ {n}
           /\ IF ok
              THEN opPatched' = opPatched \cup {n} /\ UNCHANGED <<opFailed, opErr>>
              ELSE opFailed' = opFailed \cup {n} /\ opErr' = TRUE
                                                 /\ UNCHANGED opPatched
    /\ opPc' = IF opTodo' = {} THEN "returned" ELSE "update"
    /\ UNCHANGED opList
    /\ UNCHANGED <<orchVars, tracerVars, streamVars>>

\* SetTraceOperation is not running
OpIdle ==
    /\ opPc = "off"
    /\ opList = "none"
    /\ opTodo = {}
    /\ opPatched = {}
    /\ opFailed = {}
    /\ opErr = FALSE

----------------------------------------------------------------------------
(* the program run by RunTraceAndPrintStream / RunTraceAndPrintStatusOutput *)

Init ==
    /\ cfgNode \in {0} \cup Nodes
    /\ cfgInitialState \in {"", Started}
    /\ cfgModeOk \in BOOLEAN
    /\ pc = "start"
    /\ traceID = ""
    /\ k = 1
    /\ copies = NoCopies
    /\ clock = 0
    /\ waitRet = "none"
    /\ createRet = "none"
    /\ rollback = "none"
    /\ runRet = "none"
    /\ stderr = EmptyLines
    /\ snapshot = NoCopies
    /\ hpc = [g \in Goroutines |-> "off"]
    /\ sigIntReceivedNumber = 0
    /\ exited = FALSE
    /\ deleteRequests = 0
    /\ deleteFailures = 0
    /\ nodes = Nodes
    /\ posted = <<>>
    /\ deleteRet = "none"
    /\ TracerIdle
    /\ StreamIdle
    /\ OpIdle

Next ==
    \/ RunTraceStart
    \/ \E listOk \in BOOLEAN : CreateTrace(listOk)
    \/ \E postOk, deleteOk \in BOOLEAN : createTraces(postOk, deleteOk)
    \/ \E listOk \in BOOLEAN : CreateTraceWait(listOk)
    \/ \E deleteOk \in BOOLEAN : CreateTraceRollback(deleteOk)
    \/ PrintTraceOutput
    \/ \E listOk \in BOOLEAN : PrintTraceOutputWait(listOk)
    \/ \E ok \in BOOLEAN : Display(ok)
    \/ \E deleteOk \in BOOLEAN : DeferredDeleteTrace(TRUE, deleteOk)
    \/ \E g \in Goroutines : \E sig \in Signals : sigHandler(g, sig)
    \/ \E g \in Goroutines : \E seen \in {"", "id"} : \E deleteOk \in BOOLEAN :
          sigHandlerDelete(g, seen, deleteOk)
    \/ \E n \in Nodes : \E st \in Reports : AgentReport(n, st)

Spec == Init /\ [][Next]_vars

----------------------------------------------------------------------------
(* PrintTraceOutputFromStream / PrintTraceOutputFromStatus called with the  *)
(* traceID of an existing trace, whose copies are in any status             *)

AnyCopies == UNION {[S -> Status] : S \in SUBSET Nodes}

WaitInit ==
    /\ cfgNode = 0
    /\ cfgInitialState = ""
    /\ cfgModeOk = TRUE
    /\ pc = "outWait"
    /\ traceID = "id"
    /\ k = 1
    /\ copies \in AnyCopies
    /\ clock = 0
    /\ waitRet = "none"
    /\ createRet = "none"
    /\ rollback = "none"
    /\ runRet = "none"
    /\ stderr = EmptyLines
    /\ snapshot = NoCopies
    /\ hpc = [g \in Goroutines |-> "off"]
    /\ sigIntReceivedNumber = 0
    /\ exited = FALSE
    /\ deleteRequests = 0
    /\ deleteFailures = 0
    /\ nodes = Nodes
    /\ posted = <<>>
    /\ deleteRet = "none"
    /\ TracerIdle
    /\ StreamIdle
    /\ OpIdle

WaitNext ==
    \/ \E listOk \in BOOLEAN : PrintTraceOutputWait(listOk)
    \/ \E n \in Nodes : \E st \in Status : AgentReport(n, st)

WaitSpec == WaitInit /\ [][WaitNext]_vars

\* each list request returns and the task goes on
FairWaitSpec ==
    WaitSpec /\ WF_vars(\E listOk \in BOOLEAN : PrintTraceOutputWait(listOk))

----------------------------------------------------------------------------
(* One Tracer, created by NewTracer or by NewInstance and driven by Run *)

\* no trace request is in progress
OrchIdle ==
    /\ cfgNode = 0
    /\ cfgInitialState = ""
    /\ cfgModeOk = TRUE
    /\ pc = "start"
    /\ traceID = ""
    /\ k = 1
    /\ copies = NoCopies
    /\ clock = 0
    /\ waitRet = "none"
    /\ createRet = "none"
    /\ rollback = "none"
    /\ runRet = "none"
    /\ stderr = EmptyLines
    /\ snapshot = NoCopies
    /\ hpc = [g \in Goroutines |-> "off"]
    /\ sigIntReceivedNumber = 0
    /\ exited = FALSE
    /\ deleteRequests = 0
    /\ deleteFailures = 0
    /\ nodes = Nodes
    /\ posted = <<>>
    /\ deleteRet = "none"

TracerInit ==
    /\ OrchIdle
    /\ StreamIdle
    /\ OpIdle
    /\ tEntry \in {"NewTracer", "Run"}
    /\ tLatency \in BOOLEAN
    /\ enricher \in (IF tEntry = "NewTracer" THEN BOOLEAN ELSE {FALSE})
    /\ tpc = "start"
    /\ ipc = "load"
    /\ links = NoLinks
    /\ kernel = NoAttachments
    /\ objs = FALSE
    /\ reader = "nil"
    /\ tRet = "none"
    /\ loopPc = NoLoops
    /\ reads = <<>>
    /\ events = <<>>
    /\ closeCalls = 0

TracerNext ==
    \/ NewTracer
    \/ Run
    \/ \E ok \in BOOLEAN : install(ok)
    \/ installFailed
    \/ NewTracerInstalled
    \/ RunInstalled
    \/ RunDone
    \/ Stop
    \/ \E i \in Loops : \E r \in ReadResults : run(i, r)

TracerSpec == TracerInit /\ [][TracerNext]_vars

\* the Tracer, and a reader that is closed under the running loop
LoopNext ==
    \/ TracerNext
    \/ readerClose

LoopSpec == TracerInit /\ [][LoopNext]_vars

\* the Tracer, and an owner that calls Run again on the same instance
ReuseNext ==
    \/ TracerNext
    \/ RunAgain

ReuseSpec == TracerInit /\ [][ReuseNext]_vars

----------------------------------------------------------------------------
(* genericStreamsDisplay called on the copies that waitForTraceState *)
(* returned: at least one, of any nodes, with any node filter        *)

StreamInit ==
    /\ OrchIdle
    /\ TracerIdle
    /\ OpIdle
    /\ sItems \in SUBSET Nodes \ {{}}
    /\ sNode \in {0} \cup Nodes
    /\ sJson \in BOOLEAN
    /\ apc = "client"
    /\ todo = sItems
    /\ streamCount = 0
    /\ branch = NoBranches
    /\ sigs = 0
    /\ stdout = <<>>
    /\ sRet = "none"

StreamNext ==
    \/ \E sig \in {"SIGINT", "SIGTERM"} : Notify(sig)
    \/ \E ok \in BOOLEAN : NewClientset(ok)
    \/ Launch
    \/ \E n \in Nodes : \E ok \in BOOLEAN : ExecPod(n, ok)
    \/ SelectSigs
    \/ \E n \in Nodes : SelectCompletion(n)

StreamSpec == StreamInit /\ [][StreamNext]_vars

----------------------------------------------------------------------------
(* SetTraceOperation called with a traceID, whatever copies carry it *)

\* the copies that carry the traceID: on any nodes, fresh or reported on
ExistingCopies == UNION {[S -> {Fresh} \cup Reports] : S \in SUBSET Nodes}

OpInit ==
    /\ cfgNode = 0
    /\ cfgInitialState = ""
    /\ cfgModeOk = TRUE
    /\ pc = "start"
    /\ traceID = "id"
    /\ k = 1
    /\ copies \in ExistingCopies
    /\ clock = 0
    /\ waitRet = "none"
    /\ createRet = "none"
    /\ rollback = "none"
    /\ runRet = "none"
    /\ stderr = EmptyLines
    /\ snapshot = NoCopies
    /\ hpc = [g \in Goroutines |-> "off"]
    /\ sigIntReceivedNumber = 0
    /\ exited = FALSE
    /\ deleteRequests = 0
    /\ deleteFailures = 0
    /\ nodes = Nodes
    /\ posted = <<>>
    /\ deleteRet = "none"
    /\ TracerIdle
    /\ StreamIdle
    /\ opPc = "list"
    /\ opList = "none"
    /\ opTodo = {}
    /\ opPatched = {}
    /\ opFailed = {}
    /\ opErr = FALSE

OpNext ==
    \/ \E listOk \in BOOLEAN : SetTraceOperation(listOk)
    \/ \E ok \in BOOLEAN : updateTraceOperation(ok)

OpSpec == OpInit /\ [][OpNext]_vars

----------------------------------------------------------------------------
(* DeleteTrace called with the traceID of an existing trace *)

DeleteInit ==
    /\ cfgNode = 0
    /\ cfgInitialState = ""
    /\ cfgModeOk = TRUE
    /\ pc = "deferred"
    /\ traceID = "id"
    /\ k = 1
    /\ copies \in ExistingCopies
    /\ clock = 0
    /\ waitRet = "none"
    /\ createRet = "none"
    /\ rollback = "none"
    /\ runRet = "none"
    /\ stderr = EmptyLines
    /\ snapshot = NoCopies
    /\ hpc = [g \in Goroutines |-> "off"]
    /\ sigIntReceivedNumber = 0
    /\ exited = FALSE
    /\ deleteRequests = 0
    /\ deleteFailures = 0
    /\ nodes = Nodes
    /\ posted = <<>>
    /\ deleteRet = "none"
    /\ TracerIdle
    /\ StreamIdle
    /\ OpIdle

DeleteNext ==
    \E clientOk, deleteOk \in BOOLEAN : DeferredDeleteTrace(clientOk, deleteOk)

DeleteSpec == DeleteInit /\ [][DeleteNext]_vars

----------------------------------------------------------------------------
(* CreateTrace called in a cluster with any node list, for all nodes or *)
(* for one node, which need not be in the list                          *)

CreateInit ==
    /\ cfgNode \in {0} \cup Nodes
    /\ cfgInitialState \in {"", Started}
    /\ cfgModeOk = TRUE
    /\ pc = "create"
    /\ traceID = ""
    /\ k = 1
    /\ copies = NoCopies
    /\ clock = 0
    /\ waitRet = "none"
    /\ createRet = "none"
    /\ rollback = "none"
    /\ runRet = "none"
    /\ stderr = EmptyLines
    /\ snapshot = NoCopies
    /\ hpc = [g \in Goroutines |-> "off"]
    /\ sigIntReceivedNumber = 0
    /\ exited = FALSE
    /\ deleteRequests = 0
    /\ deleteFailures = 0
    /\ nodes \in SUBSET Nodes
    /\ posted = <<>>
    /\ deleteRet = "none"
    /\ TracerIdle
    /\ StreamIdle
    /\ OpIdle

CreateNext ==
    \/ \E listOk \in BOOLEAN : CreateTrace(listOk)
    \/ \E postOk, deleteOk \in BOOLEAN : createTraces(postOk, deleteOk)
    \/ \E listOk \in BOOLEAN : CreateTraceWait(listOk)
    \/ \E deleteOk \in BOOLEAN : CreateTraceRollback(deleteOk)
    \/ \E n \in Nodes : \E st \in Reports : AgentReport(n, st)

CreateSpec == CreateInit /\ [][CreateNext]_vars

----------------------------------------------------------------------------
(* Properties of waitForTraceState, checked under WaitSpec *)

\* waitForTraceState has returned to PrintTraceOutputFrom*
WaitReturned == pc \in {"display", "deferred"}

HasError(st) == st.err # ""
HasWarning(st) == st.warn # ""
InExpectedState(st) == st.state = Started
Clean(st) == ~HasError(st) /\ ~HasWarning(st)

\* how many printed lines carry the message
MsgCount(B, msg) ==
    BagCardinality([l \in {x \in BagToSet(B) : x.msg = msg} |-> B[l]])

WarningsPrinted == \E l \in BagToSet(stderr) : l.msg \in OperationWarnings

\* C2 as stated: waitForTraceState returns success iff at least one copy is in
\* expectedState.
C2_SuccessIffSomeCopyInExpectedState ==
    WaitReturned =>
        (waitRet = "ok" <=>
            \E n \in DOMAIN snapshot : InExpectedState(snapshot[n]))

\* C2 amended: waitForTraceState returns success iff the list request
\* succeeded and at least one listed copy is in expectedState with neither an
\* error nor a warning set; on success every error of the other copies is
\* printed, attributed to its node.
C2_SuccessIffSomeCleanCopyInExpectedState ==
    WaitReturned =>
        /\ waitRet = "ok" <=>
              \E n \in DOMAIN snapshot :
                  Clean(snapshot[n]) /\ InExpectedState(snapshot[n])
        /\ waitRet = "ok" =>
              \A n \in DOMAIN snapshot :
                  HasError(snapshot[n]) =>
                      CopiesIn(NodeLine(n, snapshot[n].err), stderr) = 1

\* M of N copies converged, the others report errors, success is returned
C2_Witness ==
    /\ WaitReturned
    /\ waitRet = "ok"
    /\ DOMAIN snapshot = Nodes
    /\ \E n \in Nodes : HasError(snapshot[n])
    /\ \A n \in Nodes :
          HasError(snapshot[n])
          \/ (Clean(snapshot[n]) /\ InExpectedState(snapshot[n]))

\* C5 as stated: warnings are not printed when a copy converged, and are
\* printed when none converged and some copy has its warning field set.
C5_WarningsPrintedIffNoneConverged ==
    WaitReturned /\ DOMAIN snapshot # {} =>
        /\ waitRet = "ok" => ~WarningsPrinted
        /\ (waitRet # "ok" /\ \E n \in DOMAIN snapshot : HasWarning(snapshot[n]))
              => WarningsPrinted

\* C5 amended: warnings are not printed when a copy converged; when none
\* converged, the warning of every copy that has a warning and no error is
\* printed (a copy with both fields set has only its error printed).
C5_WarningsOfErrorFreeCopies ==
    WaitReturned /\ DOMAIN snapshot # {} =>
        /\ waitRet = "ok" => ~WarningsPrinted
        /\ waitRet # "ok" =>
              \A n \in DOMAIN snapshot :
                  (HasWarning(snapshot[n]) /\ ~HasError(snapshot[n])) =>
                      MsgCount(stderr, snapshot[n].warn) >= 1
        /\ (waitRet # "ok" /\ WarningsPrinted) =>
              \E n \in DOMAIN snapshot :
                  HasWarning(snapshot[n]) /\ ~HasError(snapshot[n])

\* no copy converged, one reports a warning, another an error: the warning
\* is printed
C5_Witness ==
    /\ WaitReturned
    /\ waitRet = NoneSucceeded
    /\ WarningsPrinted
    /\ \E n \in DOMAIN snapshot : HasError(snapshot[n])

\* C6: when every copy reports the same error, the message is printed once
\* (on one "all nodes" line when there are several copies); when the copies
\* that report errors report pairwise distinct ones, each is printed exactly
\* once, on the line of its node.
C6_IdenticalErrorsPrintedOnce ==
    WaitReturned /\ DOMAIN snapshot # {} =>
        LET erring == {n \in DOMAIN snapshot : HasError(snapshot[n])} IN
        /\ \A e \in OperationErrors :
              (\A n \in DOMAIN snapshot : snapshot[n].err = e) =>
                  /\ MsgCount(stderr, e) = 1
                  /\ Cardinality(DOMAIN snapshot) > 1 =>
                        CopiesIn(AllNodesLine(e), stderr) = 1
        /\ (\A n, m \in erring : n # m => snapshot[n].err # snapshot[m].err) =>
              \A n \in erring :
                  /\ CopiesIn(NodeLine(n, snapshot[n].err), stderr) = 1
                  /\ MsgCount(stderr, snapshot[n].err) = 1

\* every node has a copy and all report the same error
C6_Witness ==
    /\ WaitReturned
    /\ DOMAIN snapshot = Nodes
    /\ \A n \in Nodes : snapshot[n].err = "e1"
    /\ CopiesIn(AllNodesLine("e1"), stderr) = 1

\* C7: a round of waitForTraceState changes no copy and sends no delete
\* request; a copy that is neither in expectedState nor carries an error or
\* a warning is in the returning round only after the timeout, and is then
\* printed as a node error; when it is the only copy the call returns the
\* "Failed to run the gadget on all nodes" error.
C7_TimeoutIsNodeErrorNothingDeleted ==
    [][(pc = "outWait" /\ (pc' # pc \/ clock' # clock)) =>
          /\ copies' = copies
          /\ deleteRequests' = deleteRequests
          /\ pc' # pc =>
                \A n \in DOMAIN snapshot' :
                    (Clean(snapshot'[n]) /\ ~InExpectedState(snapshot'[n])) =>
                        /\ clock > traceTimeout
                        /\ \/ CopiesIn(NodeLine(n, TimeoutMsg), stderr') = 1
                           \/ CopiesIn(AllNodesLine(TimeoutMsg), stderr') = 1
                        /\ Cardinality(DOMAIN snapshot') = 1 =>
                              /\ waitRet' = NoneSucceeded
                              /\ CopiesIn(NodeLine(n, TimeoutMsg), stderr') = 1
      ]_vars

\* the single copy of a trace stayed without result until the timeout; the
\* call has returned and the copy is still there
C7_Witness ==
    /\ WaitReturned
    /\ waitRet = NoneSucceeded
    /\ Cardinality(DOMAIN snapshot) = 1
    /\ \A n \in DOMAIN snapshot : snapshot[n] = Fresh
    /\ copies = snapshot
    /\ MsgCount(stderr, TimeoutMsg) = 1

\* C8: waitForTraceState returns, whatever the copies do, after at most
\* traceTimeout / retrySleep + 1 sleeps, when every list request returns.
C8_WaitTerminatesWithinTimeout ==
    /\ [](clock <= traceTimeout + retrySleep)
    /\ <>(pc # "outWait")

\* copies stayed pending for the whole window and the call has returned
C8_Witness ==
    /\ WaitReturned
    /\ DOMAIN snapshot = Nodes
    /\ \A n \in Nodes : snapshot[n] = Fresh
    /\ CopiesIn(AllNodesLine(TimeoutMsg), stderr) = 1

----------------------------------------------------------------------------
(* Properties of CreateTrace, RunTraceAndPrint* and sigHandler, checked     *)
(* under Spec                                                               *)

NoCopyLeft == DOMAIN copies = {}

\* C1 as stated: when createTraces returns the error of a failed create, no
\* copy of the request remains on any node.
C1_NoCopyAfterFailedCreate ==
    createRet = "errCreate" => NoCopyLeft

\* C1 amended: when a create fails, createTraces sends one delete request
\* for the copies labelled with the traceID before it returns the error; no
\* copy remains when that request succeeds (when it fails the failure is
\* printed and the copies created so far stay).
C1_RollbackRequestedAfterFailedCreate ==
    createRet = "errCreate" =>
        /\ rollback # "none"
        /\ deleteRequests = 1
        /\ rollback = "ok" => NoCopyLeft
        /\ rollback = "ok" <=> deleteFailures = 0

\* the create failed after copies were created on earlier nodes, and the
\* delete succeeded
C1_Witness ==
    /\ createRet = "errCreate"
    /\ k > 1
    /\ rollback = "ok"
    /\ NoCopyLeft

\* C3: when the program has exited from the signal handler (one SIGINT at
\* most, no delete request failed), no copy of the request is left.
C3_SignalDeletesEveryCopy ==
    (exited /\ sigIntReceivedNumber <= 1 /\ deleteFailures = 0) => NoCopyLeft

C9_SecondSigIntExitsAtOnce ==
    [][sigIntReceivedNumber' # sigIntReceivedNumber =>
          IF sigIntReceivedNumber = 0
          THEN /\ ~exited'
               /\ \E g \in Goroutines : hpc'[g] = "delete"
               /\ \E g \in Goroutines : hpc'[g] = "armed"
          ELSE /\ exited'
               /\ \E g \in Goroutines : hpc[g] = "delete"
               /\ deleteRequests' = deleteRequests
               /\ copies' = copies
      ]_vars

\* the second SIGINT arrived while the first handler had not finished
\* DeleteTrace: the program has exited and the copies are still there
C9_Witness ==
    /\ exited
    /\ sigIntReceivedNumber = 2
    /\ hpc[1] = "delete"
    /\ traceID # ""
    /\ ~NoCopyLeft

----------------------------------------------------------------------------
(* Properties of the Tracer, checked under TracerSpec *)

\* C10: when NewTracer or Run returns an error, no hook of the tracer is
\* attached and no link field holds a link, in either mode and whichever
\* step of install failed.
C10_InstallAllOrNothing ==
    tRet = "err" =>
        /\ \A h \in LinkNames : kernel[h] = 0 /\ ~links[h]
        /\ ~objs
        /\ loopPc = NoLoops

\* the creation of the perf reader failed after the four attachments of the
\* mode had succeeded, and the error was returned
C10_Witness ==
    /\ tRet = "err"
    /\ ipc = "reader"
    /\ reader = "nil"
    /\ \A h \in LinkNames : kernel[h] = 0

\* every link field holds a live attachment or is nil and released
LinksConsistent ==
    \A h \in LinkNames : kernel[h] = IF links[h] THEN 1 ELSE 0

\* C11: close is safe and idempotent in every state it is called in (on
\* the fresh instance, after an install that failed part-way, while the loop
\* runs, several times in a row): no link is released twice or through a nil
\* field, and when close returns no hook of the tracer is attached, no link
\* field is set and the objects are closed.
C11_CloseIdempotentAndSafe ==
    /\ [](LinksConsistent)
    /\ [][closeCalls' > closeCalls =>
             /\ \A h \in LinkNames : kernel'[h] = 0 /\ ~links'[h]
             /\ ~objs'
             /\ (links = NoLinks => kernel' = kernel)]_vars

\* Run failed in install after three attachments, its deferred close ran and
\* Stop was called after it
C11_Witness ==
    /\ tEntry = "Run"
    /\ tRet = "err"
    /\ ipc = "v6ExitLink"
    /\ closeCalls >= 2
    /\ \A h \in LinkNames : kernel[h] = 0

\* C12: a close of a tracer whose reader is open (the loop is running)
\* closes the reader, so that the next Read of the loop returns
\* perf.ErrClosed and the loop exits.
C12_CloseClosesReader ==
    [][closeCalls' > closeCalls /\ reader = "open" => reader' = "closed"]_vars

----------------------------------------------------------------------------
(* Properties of the loop of Tracer.run, checked under LoopSpec *)

\* the last result of t.reader.Read()
LastRead == reads[Len(reads)]

ErrorEvents == {j \in 1..Len(events) : events[j].Type = "ERR"}

\* C13: when the reader has been closed under a loop blocked in Read, the
\* Read returns, the loop returns, and that iteration gives no event, so no
\* error event, to the callback.
C13_ClosedReaderEndsLoopSilently ==
    [][reader = "closed" /\ reads' # reads =>
          /\ events' = events
          /\ \E i \in Loops : loopPc[i] = "reading" /\ loopPc'[i] = "done"
          /\ \A i \in Loops : loopPc'[i] # "reading"]_vars

\* the reader was closed after the loop had delivered an event, and the loop
\* has returned
C13_Witness ==
    /\ reader = "closed"
    /\ Len(reads) > 1
    /\ LastRead.err = ErrClosed
    /\ Len(events) = Len(reads) - 1
    /\ loopPc[1] = "done"

\* C14: the iteration that reads a record with LostSamples > 0 gives the
\* callback exactly one warning event, with the count, and the loop goes on
\* reading; a loop that has returned read an error last, never a record.
C14_LostSamplesWarnAndContinue ==
    /\ [][reads' # reads /\ LastRead'.err = "" /\ LastRead'.LostSamples > 0 =>
             /\ events' = Append(events, WarnEvent(LastRead'.LostSamples))
             /\ loopPc' = loopPc]_vars
    /\ [](\A i \in Loops : loopPc[i] = "done" => LastRead.err # "")

\* samples were lost, a warning was given, and the sample read next was
\* given to the callback as well
C14_Witness ==
    /\ Len(reads) = 2
    /\ reads[1].LostSamples > 0
    /\ reads[2] \in SampleRecords
    /\ Len(events) = 2
    /\ events[1].Type = "WARN"
    /\ events[2].Type = "NORMAL"
    /\ loopPc[1] = "reading"

\* C15: a Read error other than perf.ErrClosed gives the callback exactly
\* one error event, with the cause, and ends the loop; once no loop reads,
\* the callback is not invoked any more; a loop that has returned either
\* read such an error and gave its one error event last, or read
\* perf.ErrClosed and no error event was ever given.
C15_ReadErrorEndsLoopWithOneErrorEvent ==
    /\ [][reads' # reads /\ LastRead'.err \notin {"", ErrClosed} =>
             /\ events' = Append(events, ErrEvent(LastRead'.err))
             /\ \E i \in Loops : loopPc[i] = "reading" /\ loopPc'[i] = "done"]_vars
    /\ [][(\A i \in Loops : loopPc[i] # "reading") => events' = events]_vars
    /\ [](\A i \in Loops : loopPc[i] = "done" =>
             IF LastRead.err = ErrClosed
             THEN ErrorEvents = {}
             ELSE /\ LastRead.err # ""
                  /\ ErrorEvents = {Len(events)}
                  /\ events[Len(events)] = ErrEvent(LastRead.err))

\* the loop gave two events and then ended on a read error
C15_Witness ==
    /\ Len(reads) = 3
    /\ LastRead.err = ReadError
    /\ Len(events) = 3
    /\ events[3].Type = "ERR"
    /\ loopPc[1] = "done"

\* the records read successfully, in read order
RecordsRead == SelectSeq(reads, LAMBDA r : r.err = "")

\* C16: the callback was invoked once per record read, in read order: the
\* j-th event is a warning with the count when the j-th record reports lost
\* samples, and else a normal event of that record, enriched exactly when the
\* tracer has an enricher; the only event beyond those is the error event of
\* the read that ended the loop.
C16_OneCallbackPerRecordInOrder ==
    /\ Len(events) - Cardinality(ErrorEvents) = Len(RecordsRead)
    /\ \A j \in 1..Len(RecordsRead) :
          IF RecordsRead[j].LostSamples > 0
          THEN /\ events[j].Type = "WARN"
               /\ events[j].Lost = RecordsRead[j].LostSamples
          ELSE /\ events[j].Type = "NORMAL"
               /\ events[j].MountNsID = RecordsRead[j].MntnsId
               /\ events[j].Enriched = enricher

\* a tracer with an enricher read two samples of different mount namespaces
C16_Witness ==
    /\ enricher
    /\ Len(RecordsRead) = 2
    /\ RecordsRead[1].MntnsId = 2
    /\ RecordsRead[2].MntnsId = 1
    /\ Len(events) = 2

----------------------------------------------------------------------------
(* The lifecycle of one Tracer instance, checked under ReuseSpec *)

\* C17: Closed is terminal: once close has returned on an instance, no step
\* attaches a hook of that instance or starts a consumption loop on it, and
\* at most one consumption loop is ever started on one instance.
C17_ClosedIsTerminal ==
    /\ [][closeCalls > 0 =>
             /\ \A h \in LinkNames : kernel'[h] <= kernel[h]
             /\ \A i \in Loops : loopPc[i] = "off" => loopPc'[i] = "off"]_vars
    /\ [](Cardinality({i \in Loops : loopPc[i] # "off"}) <= 1)

----------------------------------------------------------------------------
(* Properties of genericStreamsDisplay, checked under StreamSpec *)

\* the positions in stdout of the completion messages of node n
CompletionLines(n) ==
    {j \in 1..Len(stdout) : stdout[j].node = n /\ stdout[j] # TerminatingLine}

TerminatingLines == {j \in 1..Len(stdout) : stdout[j] = TerminatingLine}

Received == {n \in Nodes : CompletionLines(n) # {}}

\* C18: a branch ends only by delivering its notification, one per branch,
\* whether its command completed or failed; once the launch loop is over the
\* counter is the number of branches launched minus the notifications
\* received; the aggregator returns on the completion path exactly when a
\* decrement brings the counter to zero, so while it selects with branches
\* launched the counter is positive.
C18_OneNotificationPerBranchCountedDown ==
    /\ \A n \in Nodes :
          Cardinality(CompletionLines(n)) = IF branch[n] = "done" THEN 1 ELSE 0
    /\ apc \in {"select", "completed", "cancelled"} =>
          streamCount = Cardinality(Launched) - Cardinality(Received)
    /\ apc = "completed" =>
          streamCount = 0 /\ sRet = "nil" /\ Received = Launched
    /\ apc = "select" /\ Launched # {} => streamCount > 0 /\ sRet = "none"

\* two branches, one whose command completed and one whose command failed,
\* were received and the aggregator returned
C18_Witness ==
    /\ apc = "completed"
    /\ Len(stdout) = 2
    /\ stdout[1].text = "Error running command on node"
    /\ stdout[2].text = "Trace completed on node"
    /\ sigs = 0

\* C19 as stated: on the cancellation path the aggregator has printed
\* "Terminating..." exactly once and returned nil.
C19_CancelPrintsTerminatingOnce ==
    apc = "cancelled" => sRet = "nil" /\ Cardinality(TerminatingLines) = 1

\* C19 amended: on the cancellation path the aggregator returns nil, having
\* printed "Terminating..." exactly once, as its last line, unless the output
\* mode is JSON, where it prints no such line; the branches in flight are
\* abandoned: nothing is received or printed after the return. Without a
\* cancellation no "Terminating..." is printed.
C19_CancelReturnsNilTerminatingUnlessJson ==
    /\ [](apc = "cancelled" =>
             /\ sRet = "nil"
             /\ TerminatingLines = IF sJson THEN {} ELSE {Len(stdout)})
    /\ [](apc # "cancelled" => TerminatingLines = {})
    /\ [][apc = "cancelled" =>
             stdout' = stdout /\ streamCount' = streamCount /\ apc' = apc]_vars

\* cancelled after the branch of one node had been received, while the
\* command of another node was still running
C19_Witness ==
    /\ apc = "cancelled"
    /\ ~sJson
    /\ \E n \in Nodes : branch[n] = "done"
    /\ \E n \in Nodes : branch[n] = "exec"
    /\ Len(stdout) = 2

----------------------------------------------------------------------------
(* Properties of SetTraceOperation, checked under OpSpec *)

OpAttempted == opPatched \cup opFailed

\* C20 as stated: when SetTraceOperation returns, the update was attempted
\* on every copy, and the error returned is non-nil if and only if an update
\* failed or no copy has the traceID.
C20_AllAttemptedErrorIffSomeUpdateFailed ==
    opPc = "returned" =>
        /\ OpAttempted = DOMAIN copies
        /\ opErr <=> (opFailed # {} \/ DOMAIN copies = {})

\* C20 amended: when the copies were listed, the update was attempted on
\* every one of them, each once, whatever updates failed before, and the
\* error returned is non-nil if and only if an update failed; when they
\* could not be listed or none has the traceID, no update is attempted and
\* the error returned is non-nil.
C20_AllListedAttemptedErrorIffFailedOrNotListed ==
    /\ opPatched \cap opFailed = {}
    /\ opPc = "returned" =>
          IF opList = "ok"
          THEN /\ OpAttempted = DOMAIN copies
               /\ opErr <=> opFailed # {}
          ELSE /\ OpAttempted = {}
               /\ opErr

\* the update of the first copy failed, those of the two copies after it
\* were made, and the error was returned
C20_Witness ==
    /\ opPc = "returned"
    /\ opFailed = {1}
    /\ opPatched = {2, 3}
    /\ opErr

----------------------------------------------------------------------------
(* Properties of DeleteTrace, checked under DeleteSpec *)

\* C21: DeleteTrace sends one delete request for all the copies of the
\* traceID; whether the request succeeds (no copy is left) or fails (the
\* failure is logged and the copies stay), DeleteTrace returns nil and the
\* caller goes on. An error is returned only when no delete request was sent.
C21_DeleteFailureLoggedNotReturned ==
    /\ [][deleteRequests' # deleteRequests =>
             /\ deleteRequests' = deleteRequests + 1
             /\ deleteRet' = "nil"
             /\ pc' = "done"
             /\ \/ copies' = NoCopies /\ deleteFailures' = deleteFailures
                \/ copies' = copies /\ deleteFailures' = deleteFailures + 1]_vars
    /\ [](deleteRet = "err" => deleteRequests = 0)

\* the delete request failed, the copies are still there, and DeleteTrace
\* returned nil to the caller, which went on
C21_Witness ==
    /\ pc = "done"
    /\ deleteRet = "nil"
    /\ deleteFailures = 1
    /\ Cardinality(DOMAIN copies) = 2

----------------------------------------------------------------------------
(* Properties of CreateTrace, checked under CreateSpec *)

\* CreateTrace has returned the traceID and a nil error
CreateTraceReturnedID == pc = "created" /\ createRet = "ok"

PostedNodes == {posted[j].node : j \in 1..Len(posted)}

\* C22: when CreateTrace has returned the traceID, the copies it created
\* all carry that one label and are on pairwise distinct nodes: one per node
\* of the node list when no node was selected, and exactly one, on the
\* selected node, when a node was selected.
C22_OneLabelOneCopyPerTargetNode ==
    CreateTraceReturnedID =>
        /\ \A j \in 1..Len(posted) : posted[j].label = TraceLabel
        /\ Cardinality(PostedNodes) = Len(posted)
        /\ IF cfgNode = 0
           THEN PostedNodes = nodes
           ELSE posted = <<[node |-> cfgNode, label |-> TraceLabel]>>

\* C26: when CreateTrace has returned the traceID, at least one copy with
\* that traceID was created and exists, whatever the node list and the node
\* selected.
C26_CreatedTraceHasACopy ==
    CreateTraceReturnedID => posted # <<>> /\ DOMAIN copies # {}

----------------------------------------------------------------------------
(* The composition of RunTraceAndPrint*, checked under Spec *)

\* the step on which RunTraceAndPrint* returns
RunReturns == pc # "done" /\ pc' = "done"

\* C23: RunTraceAndPrint* composes create, then wait/display, then delete:
\* when CreateTrace succeeded, the function returns only from its deferred
\* DeleteTrace, which is invoked after the wait/display phase has given its
\* result, be it success or an error, and leaves that result alone; when
\* the output mode does not fit the function, it returns an error and
\* creates no copy.
C23_CreateWaitDeleteInOrder ==
    /\ [][RunReturns /\ createRet = "ok" =>
             /\ pc = "deferred"
             /\ runRet \in {"ok", "err"}
             /\ runRet' = runRet
             /\ deleteRet' = "nil"
             /\ deleteRequests' = deleteRequests + 1]_vars
    /\ [](~cfgModeOk =>
             /\ posted = <<>>
             /\ copies = NoCopies
             /\ createRet = "none"
             /\ deleteRequests = 0
             /\ pc = "done" => runRet = "err")

\* the display phase failed after a successful wait, and the trace was
\* deleted before the return
C23_Witness ==
    /\ pc = "done" /\ createRet = "ok"
    /\ waitRet = "ok" /\ runRet = "err"
    /\ deleteRet = "nil" /\ deleteRequests >= 1
    /\ ~exited

----------------------------------------------------------------------------
(* The classification of the returning round, checked under WaitSpec *)

ErrorClass(st) == HasError(st)
WarningClass(st) == ~HasError(st) /\ HasWarning(st)
ConvergedClass(st) == Clean(st) /\ InExpectedState(st)
TimedOutClass(st) == Clean(st) /\ ~InExpectedState(st)

Messages == OperationErrors \cup OperationWarnings \cup {TimeoutMsg}

\* the message was printed for the node, on its own line or on a line for
\* all nodes
ReportedAs(n, msg) ==
    BagIn(NodeLine(n, msg), stderr) \/ BagIn(AllNodesLine(msg), stderr)

\* C24: in the round on which waitForTraceState returns, each copy is in
\* exactly one class, by the precedence error, warning, converged, timed
\* out: a copy with an error is reported with its error and nothing else,
\* whatever its warning and state; a copy with a warning and no error is
\* never reported as an error nor counted as converged, whatever its state;
\* only a clean copy in expectedState counts as converged and has nothing
\* reported; the timeout error is reported for exactly the copies that are
\* none of the three.
C24_ClassPrecedence ==
    WaitReturned /\ DOMAIN snapshot # {} =>
        /\ \A n \in DOMAIN snapshot :
              LET st == snapshot[n] IN
              /\ ErrorClass(st) =>
                    /\ ReportedAs(n, st.err)
                    /\ \A m \in Messages \ {st.err} : ~ReportedAs(n, m)
              /\ WarningClass(st) =>
                    /\ ReportedAs(n, st.warn) <=> waitRet # "ok"
                    /\ \A m \in Messages \ {st.warn} : ~ReportedAs(n, m)
              /\ ConvergedClass(st) =>
                    \A m \in Messages : ~ReportedAs(n, m)
              /\ TimedOutClass(st) =>
                    /\ ReportedAs(n, TimeoutMsg)
                    /\ \A m \in Messages \ {TimeoutMsg} : ~ReportedAs(n, m)
        /\ waitRet = "ok" <=>
              \E n \in DOMAIN snapshot : ConvergedClass(snapshot[n])
        /\ waitRet # "ok" => waitRet = NoneSucceeded

\* a copy in expectedState with an error and a warning, one in expectedState
\* with a warning, and one that timed out: none counts as converged
C24_Witness ==
    /\ WaitReturned
    /\ waitRet = NoneSucceeded
    /\ \E n \in DOMAIN snapshot :
          /\ HasError(snapshot[n]) /\ HasWarning(snapshot[n])
          /\ InExpectedState(snapshot[n])
    /\ \E n \in DOMAIN snapshot :
          WarningClass(snapshot[n]) /\ InExpectedState(snapshot[n])
    /\ \E n \in DOMAIN snapshot :
          TimedOutClass(snapshot[n]) /\ BagIn(NodeLine(n, TimeoutMsg), stderr)

\* some copy is pending
PendingCopy == \E n \in DOMAIN copies : TimedOutClass(copies[n])

\* C25: while the timeout has not elapsed and a copy is pending, a round of
\* waitForTraceState gives no convergence result and prints nothing: it is
\* retried after the sleep (or ends on a list error), whatever the other
\* copies report; stderr is written only on the return, so that each node
\* error is printed exactly once per call.
C25_PendingCopyDiscardsRound ==
    /\ [][pc = "outWait" /\ clock <= traceTimeout /\ PendingCopy =>
             /\ waitRet' \notin {"ok", NoneSucceeded}
             /\ stderr' = stderr
             /\ (pc' # pc \/ clock' # clock) =>
                   \/ /\ waitRet' = "retry"
                      /\ pc' = pc
                      /\ clock' = clock + retrySleep
                   \/ waitRet' = ListError]_vars
    /\ [][stderr' # stderr => pc = "outWait" /\ pc' # "outWait"]_vars
    /\ [](WaitReturned =>
             \A n \in DOMAIN snapshot :
                 HasError(snapshot[n]) =>
                     CopiesIn(NodeLine(n, snapshot[n].err), stderr)
                     + CopiesIn(AllNodesLine(snapshot[n].err), stderr) = 1)

\* a round was discarded although one copy has converged and one reports an
\* error, and nothing was printed
C25_Witness ==
    /\ pc = "outWait"
    /\ waitRet = "retry"
    /\ clock >= 2
    /\ stderr = EmptyLines
    /\ PendingCopy
    /\ \E n \in DOMAIN copies : ConvergedClass(copies[n])
    /\ \E n \in DOMAIN copies : ErrorClass(copies[n])

----------------------------------------------------------------------------
(* Termination of genericStreamsDisplay and of its branches, checked under *)
(* StreamSpec                                                              *)

\* the launched branches whose notification the aggregator has not received
Undelivered == Launched \ Received

\* C27: genericStreamsDisplay returns without a signal once every branch it
\* launched has finished, whatever the copies and the node filter: it never
\* waits in its select with no signal pending and no branch left that could
\* send a notification.
C27_SelectNeverWaitsForNoBranch ==
    ~(apc = "select" /\ sigs = 0 /\ InFlight = {})

\* C28: no branch is left trying to send its completion notification once
\* the aggregator has returned on a signal and nobody receives from the
\* channel any more.
C28_NoBranchSendsAfterCancel ==
    apc = "cancelled" => \A n \in Nodes : branch[n] \notin {"sendOk", "sendErr"}

\* C29: streamCount is always the number of launched branches whose
\* notification has not been received; it is incremented only in the launch
\* loop, before any notification is received, and decremented only in the
\* select loop, after the last increment; it is never negative and is zero
\* only when no launched branch has its notification outstanding.
C29_CounterIsUndeliveredBranches ==
    /\ [](streamCount = Cardinality(Undelivered))
    /\ [](streamCount >= 0)
    /\ [](streamCount = 0 => Undelivered = {})
    /\ [][streamCount' > streamCount =>
             /\ streamCount' = streamCount + 1
             /\ apc = "launch"
             /\ Received = {}]_vars
    /\ [][streamCount' < streamCount =>
             /\ streamCount' = streamCount - 1
             /\ apc = "select"
             /\ todo = {}
             /\ Cardinality(Received') = Cardinality(Received) + 1]_vars

\* two branches launched with a node skipped, one notification received,
\* the other branch still running its command
C29_Witness ==
    /\ apc = "select"
    /\ streamCount = 1
    /\ Cardinality(Launched) = 2
    /\ Cardinality(Received) = 1
    /\ \E n \in Nodes : branch[n] = "exec"

----------------------------------------------------------------------------
(* The callback after close, checked under TracerSpec *)

\* close has returned after the loop was started: Stop on a Tracer that
\* NewTracer returned, or the deferred close of a Run that returned nil
ClosedAfterLoopStart == closeCalls > 0 /\ tpc = "returned" /\ tRet = "ok"

\* C30: once close has returned after the loop was started, the loop gives
\* no further event to the callback.
C30_NoCallbackAfterClose ==
    [][ClosedAfterLoopStart => events' = events]_vars

====
